---- MODULE Spec2Model ----
(***************************************************************************)
(* Model of svg-to-dia.py: a one-shot batch converter that, for every      *)
(* distinct input stem, rasterizes a thumbnail, probes its size, copies    *)
(* the vector source, writes a shape descriptor, and finally writes one    *)
(* sheet descriptor.                                                       *)
(*                                                                         *)
(* Text is modelled as a sequence of chunks; the characters that the code  *)
(* inspects ("/", ".", " ", the decimal digits) are always chunks of their *)
(* own, other chunks ("a", "svg", "shapes") stand for runs of ordinary     *)
(* characters.                                                             *)
(***************************************************************************)
EXTENDS Integers, Sequences, FiniteSets, TLC

\* ---------------------------------------------------------------- bounds
MaxFiles == 3
MaxVerbosity == 2
MaxStatus == 2
MaxDim == 22

\* ------------------------------------------------------ program constants
ThumbSize == 22
INFO == 1
WARN == 2
ExitSuccess == 0
ExitUncaught == 1

\* ------------------------------------------------------------ input sets
Dirs == { <<>>, <<"d", "/">> }
Names == { <<"a">>, <<"b">> }
Exts == { <<>>, <<".", "svg">> }
Paths == { d \o n \o e : d \in Dirs, n \in Names, e \in Exts }
RunNames == { <<"demo">> }
User == <<"user">>
PngDims == { <<ThumbSize, ThumbSize>>, <<ThumbSize, 15>> }

RECURSIVE SeqsUpTo(_, _)
SeqsUpTo(S, n) ==
    IF n = 0 THEN { <<>> }
    ELSE LET shorter == SeqsUpTo(S, n - 1)
         IN  shorter \cup { Append(s, x) : s \in shorter, x \in S }

ArgLists == SeqsUpTo(Paths, MaxFiles) \ { <<>> }

\* ------------------------------------------------------- text conversions
DigitChars == <<"0", "1", "2", "3", "4", "5", "6", "7", "8", "9">>

\* str(n) for n >= 0
RECURSIVE Str(_)
Str(n) ==
    IF n < 10 THEN << DigitChars[n + 1] >>
    ELSE Str(n \div 10) \o << DigitChars[(n % 10) + 1] >>

DigitValue(c) == CHOOSE v \in 0..9 : DigitChars[v + 1] = c

\* int(s) for a non-empty digit sequence
RECURSIVE ParseInt(_)
ParseInt(s) ==
    IF Len(s) = 1 THEN DigitValue(s[1])
    ELSE 10 * ParseInt(SubSeq(s, 1, Len(s) - 1)) + DigitValue(s[Len(s)])

\* s.split(c), keeping empty fields
RECURSIVE SplitOn(_, _)
SplitOn(s, c) ==
    IF s = <<>> THEN << <<>> >>
    ELSE LET rest == SplitOn(Tail(s), c)
         IN  IF Head(s) = c THEN << <<>> >> \o rest
             ELSE << (<< Head(s) >> \o Head(rest)) >> \o Tail(rest)

\* bytes.decode().split(): whitespace split, no empty fields
SplitWhitespace(s) == SelectSeq(SplitOn(s, " "), LAMBDA f : f # <<>>)

\* ------------------------------------------------------------- pathlib
\* Path(p).parts without the root: empty and "." components are dropped
PathParts(p) == SelectSeq(SplitOn(p, "/"), LAMBDA f : f # <<>> /\ f # <<".">>)

PathName(p) ==
    LET parts == PathParts(p)
    IN  IF parts = <<>> THEN <<>> ELSE parts[Len(parts)]

\* name.rfind('.') as a 1-based index, 0 when absent
RFind(s, c) ==
    LET I == { k \in 1..Len(s) : s[k] = c }
    IN  IF I = {} THEN 0 ELSE CHOOSE k \in I : \A j \in I : j <= k

StemKeepSuffix(p) == PathName(p)

\* Path(p).stem: the name up to its last dot, unless that dot is the first
\* or the last character of the name
Stem(p) ==
    LET name == PathName(p)
        k == RFind(name, ".")
    IN  IF 1 < k /\ k < Len(name) THEN SubSeq(name, 1, k - 1) ELSE name

\* --------------------------------------------------------- output paths
PSheets == <<"sheets">>
PShapes(name) == <<"shapes", "/">> \o name

PngFileFlat(name, stem) == <<"shapes", "/">> \o stem \o <<".", "png">>

PngFile(name, stem) == PShapes(name) \o <<"/">> \o stem \o <<".", "png">>
SvgFile(name, stem) == PShapes(name) \o <<"/">> \o stem \o <<".", "svg">>
ShapeFile(name, stem) == PShapes(name) \o <<"/">> \o stem \o <<".", "shape">>
SheetFile(name) == PSheets \o <<"/">> \o name \o <<".", "sheet">>

\* ------------------------------------------------------------ documents
NewSheet(name) ==
    [ name |-> name,
      author |-> User,
      description |-> name \o <<" description">>,
      objects |-> <<>> ]

NoSheet == [ name |-> <<>>, author |-> <<>>, description |-> <<>>, objects |-> <<>> ]

\* d[k] = v on an insertion-ordered dict kept as a sequence of <<key, value>>
DictSet(d, k, v) ==
    IF \E j \in 1..Len(d) : d[j][1] = k
    THEN [ j \in 1..Len(d) |-> IF d[j][1] = k THEN <<k, v>> ELSE d[j] ]
    ELSE Append(d, <<k, v>>)

DictKeys(d) == [ j \in 1..Len(d) |-> d[j][1] ]

ObjectDescription(stem) == <<"description ">> \o stem

OptionalField(tag, text) ==
    IF text # <<>> THEN << [ tag |-> tag, text |-> text ] >> ELSE <<>>

build_sheet_reversed(sheet) ==
    [ tag |-> "sheet",
      fields |-> OptionalField("name", sheet.name)
                 \o OptionalField("created_by", sheet.author)
                 \o OptionalField("description", sheet.description),
      contents |-> [ j \in 1..Len(sheet.objects) |->
                       [ name |-> sheet.objects[Len(sheet.objects) + 1 - j][1],
                         description |-> sheet.objects[Len(sheet.objects) + 1 - j][2] ] ] ]

build_sheet(sheet) ==
    [ tag |-> "sheet",
      fields |-> OptionalField("name", sheet.name)
                 \o OptionalField("created_by", sheet.author)
                 \o OptionalField("description", sheet.description),
      contents |-> [ j \in 1..Len(sheet.objects) |->
                       [ name |-> sheet.objects[j][1],
                         description |-> sheet.objects[j][2] ] ] ]

Point(x, y) == [ x |-> Str(x), y |-> Str(y) ]

build_shape_symmetric(svg_path, width, height) ==
    [ tag |-> "shape",
      name |-> Stem(svg_path),
      icon |-> Stem(svg_path) \o <<".", "png">>,
      connections |-> << Point(0, 0),
                         Point(0, height \div 2),
                         Point(0, height),
                         Point(width \div 2, 0),
                         Point(width, 0),
                         Point(width \div 2, height),
                         Point(width \div 2, height \div 2),
                         Point(width, height \div 2),
                         Point(width, height) >>,
      aspectratio |-> "fixed",
      image |-> [ href |-> Stem(svg_path) \o <<".", "svg">>,
                  x |-> <<"0">>, y |-> <<"0">>,
                  width |-> Str(width), height |-> Str(height) ] ]

build_shape(svg_path, width, height) ==
    [ tag |-> "shape",
      name |-> Stem(svg_path),
      icon |-> Stem(svg_path) \o <<".", "png">>,
      connections |-> << Point(0, 0),
                         Point(0, width \div 2),
                         Point(0, width),
                         Point(height \div 2, 0),
                         Point(height, 0),
                         Point(width \div 2, height),
                         Point(width \div 2, height \div 2),
                         Point(width, height \div 2),
                         Point(width, height) >>,
      aspectratio |-> "fixed",
      image |-> [ href |-> Stem(svg_path) \o <<".", "svg">>,
                  x |-> <<"0">>, y |-> <<"0">>,
                  width |-> Str(width), height |-> Str(height) ] ]

\* ----------------------------------------------------------- diagnostics
\* verbose_print(level, text) appended to the printed output o
VerbosePrint(o, v, level, text) ==
    IF v # 0
    THEN IF level > 1 - v THEN Append(o, [ level |-> level, text |-> text ]) ELSE o
    ELSE o

\* -------------------------------------------------------- external tools
\* what `identify -format '%w %h'` prints for a raster of the given size
IdentifyOutput(dims) == Str(dims[1]) \o <<" ">> \o Str(dims[2])

\* map(int, output.decode().split())
ParseDims(output) ==
    LET f == SplitWhitespace(output)
    IN  << ParseInt(f[1]), ParseInt(f[2]) >>

\* ---------------------------------------------------------------- files
PngContent(dims) == [ kind |-> "png", dims |-> dims ]
BytesOf(path) == [ kind |-> "bytes", of |-> path ]
XmlText(doc) == [ kind |-> "xml", doc |-> doc ]

WriteFile(d, path, content) ==
    [ f \in (DOMAIN d) \cup { path } |-> IF f = path THEN content ELSE d[f] ]

EmptyDisk == [ f \in {} |-> PngContent(<<ThumbSize, ThumbSize>>) ]
StaleFile(name) == PShapes(name) \o <<"/", "old", ".", "png">>
StaleDisk(name) == WriteFile(EmptyDisk, StaleFile(name), PngContent(<<ThumbSize, ThumbSize>>))

Event(op, stem, ok) == [ op |-> op, stem |-> stem, ok |-> ok ]


\* ---------------------------------------------------------------- state
VARIABLES
    args,        \* args.svg_file: the positional path list
    name,        \* args.name
    verbosity,   \* args.verbosity, 0 when the flag is absent
    initDisk,    \* the output area as it was when the run started
    pc,          \* position of main
    i,           \* index into args of the loop's current svg_file
    seen,        \* the set `seen`
    processed,   \* stems in the order they were added to `seen`
    sheet,       \* the Sheet object
    width,       \* local `width`, 0 while unbound
    height,      \* local `height`, 0 while unbound
    disk,        \* files of the output area: path -> content
    dirs,        \* directories of the output area
    out,         \* lines printed on standard output
    trace,       \* external calls, file writes and dict insertions so far
    cmdStatus,   \* <<returncode>> of the command that raised, else <<>>
    exitCode,    \* <<status>> once the process has exited, else <<>>
    bsPc,        \* build_shape harness: "in" or "built"
    bsPath,      \* build_shape harness: svg_path
    bsWidth,     \* build_shape harness: width
    bsHeight,    \* build_shape harness: height
    bsDoc        \* build_shape harness: returned element tree

runVars == << args, name, verbosity, initDisk, pc, i, seen, processed, sheet,
              width, height, disk, dirs, out, trace, cmdStatus, exitCode >>
bsVars == << bsPc, bsPath, bsWidth, bsHeight, bsDoc >>
vars == << runVars, bsVars >>

NoDoc == build_shape(<<>>, 0, 0)

BsIdle ==
    /\ bsPc = "idle"
    /\ bsPath = <<>>
    /\ bsWidth = 0
    /\ bsHeight = 0
    /\ bsDoc = NoDoc

\* the state once parse_args has returned
Init ==
    /\ args \in ArgLists
    /\ name \in RunNames
    /\ verbosity \in 0..MaxVerbosity
    /\ initDisk \in { EmptyDisk, StaleDisk(name) }
    /\ disk = initDisk
    /\ dirs = IF initDisk = EmptyDisk THEN {} ELSE { <<"shapes">>, PShapes(name) }
    /\ pc = "start"
    /\ i = 0
    /\ seen = {}
    /\ processed = <<>>
    /\ sheet = NoSheet
    /\ width = 0
    /\ height = 0
    /\ out = <<>>
    /\ trace = <<>>
    /\ cmdStatus = <<>>
    /\ exitCode = <<>>
    /\ BsIdle

\* ------------------------------------------------------------- main steps
\* directories are made, the Sheet is constructed, `seen` is emptied
Setup ==
    /\ pc = "start"
    /\ dirs' = dirs \cup { PSheets, <<"shapes">>, PShapes(name) }
    /\ sheet' = NewSheet(name)
    /\ seen' = {}
    /\ i' = 1
    /\ pc' = "loop"
    /\ UNCHANGED << args, name, verbosity, initDisk, processed, width, height,
                    disk, out, trace, cmdStatus, exitCode, bsVars >>

CurStem == Stem(args[i])

InLoopBody == pc = "loop" /\ i <= Len(args)

IsDuplicate == CurStem \in seen

AbortExitCodeOfCommand(status) == status

\* an uncaught CalledProcessError ends the interpreter
AbortExitCode(status) == ExitUncaught

Abort(status) ==
    /\ pc' = "aborted"
    /\ cmdStatus' = << status >>
    /\ exitCode' = << AbortExitCode(status) >>

LoopDupBreaks ==
    /\ InLoopBody
    /\ IsDuplicate
    /\ out' = VerbosePrint(out, verbosity, WARN, <<"WARN: ignoring duplicate ">> \o CurStem)
    /\ i' = Len(args) + 1
    /\ UNCHANGED << args, name, verbosity, initDisk, pc, seen, processed, sheet,
                    width, height, disk, dirs, trace, cmdStatus, exitCode, bsVars >>

\* the stem was seen before: warn and continue
LoopDup ==
    /\ InLoopBody
    /\ IsDuplicate
    /\ out' = VerbosePrint(out, verbosity, WARN, <<"WARN: ignoring duplicate ">> \o CurStem)
    /\ i' = i + 1
    /\ UNCHANGED << args, name, verbosity, initDisk, pc, seen, processed, sheet,
                    width, height, disk, dirs, trace, cmdStatus, exitCode, bsVars >>

\* new stem, `convert` exits 0 having written the thumbnail
ConvertOk ==
    /\ InLoopBody
    /\ ~IsDuplicate
    /\ seen' = seen \cup { CurStem }
    /\ processed' = Append(processed, CurStem)
    /\ \E d \in PngDims :
          disk' = WriteFile(disk, PngFile(name, CurStem), PngContent(d))
    /\ trace' = Append(trace, Event("convert", CurStem, TRUE))
    /\ out' = VerbosePrint(out, verbosity, INFO, <<"INFO: wrote ">> \o PngFile(name, CurStem))
    /\ pc' = "identify"
    /\ UNCHANGED << args, name, verbosity, initDisk, i, sheet, width, height,
                    dirs, cmdStatus, exitCode, bsVars >>

ConvertFailSwallowed ==
    /\ InLoopBody
    /\ ~IsDuplicate
    /\ seen' = seen \cup { CurStem }
    /\ processed' = Append(processed, CurStem)
    /\ trace' = Append(trace, Event("convert", CurStem, FALSE))
    /\ i' = i + 1
    /\ UNCHANGED << args, name, verbosity, initDisk, pc, sheet, width, height,
                    disk, dirs, out, cmdStatus, exitCode, bsVars >>

\* new stem, `convert` exits non-zero: check_call raises; by the rasterizer's
\* contract (produce the file, or fail) a failed call leaves no thumbnail
ConvertFail ==
    /\ InLoopBody
    /\ ~IsDuplicate
    /\ seen' = seen \cup { CurStem }
    /\ processed' = Append(processed, CurStem)
    /\ trace' = Append(trace, Event("convert", CurStem, FALSE))
    /\ \E status \in 1..MaxStatus : Abort(status)
    /\ UNCHANGED << args, name, verbosity, initDisk, i, sheet, width, height,
                    disk, dirs, out, bsVars >>

\* `identify` exits 0; its output is parsed into width and height
IdentifyOk ==
    /\ pc = "identify"
    /\ LET wh == ParseDims(IdentifyOutput(disk[PngFile(name, CurStem)].dims))
       IN  /\ width' = wh[1]
           /\ height' = wh[2]
    /\ trace' = Append(trace, Event("identify", CurStem, TRUE))
    /\ pc' = "copy"
    /\ UNCHANGED << args, name, verbosity, initDisk, i, seen, processed, sheet,
                    disk, dirs, out, cmdStatus, exitCode, bsVars >>

\* `identify` exits non-zero: check_output raises
IdentifyFail ==
    /\ pc = "identify"
    /\ trace' = Append(trace, Event("identify", CurStem, FALSE))
    /\ \E status \in 1..MaxStatus : Abort(status)
    /\ UNCHANGED << args, name, verbosity, initDisk, i, seen, processed, sheet,
                    width, height, disk, dirs, out, bsVars >>

\* the source's bytes are written to <stem>.svg
CopySvg ==
    /\ pc = "copy"
    /\ disk' = WriteFile(disk, SvgFile(name, CurStem), BytesOf(args[i]))
    /\ trace' = Append(trace, Event("copy", CurStem, TRUE))
    /\ out' = VerbosePrint(out, verbosity, INFO, <<"INFO: wrote ">> \o SvgFile(name, CurStem))
    /\ pc' = "shape"
    /\ UNCHANGED << args, name, verbosity, initDisk, i, seen, processed, sheet,
                    width, height, dirs, cmdStatus, exitCode, bsVars >>

\* the shape descriptor is built and written to <stem>.shape
WriteShape ==
    /\ pc = "shape"
    /\ disk' = WriteFile(disk, ShapeFile(name, CurStem),
                         XmlText(build_shape(args[i], width, height)))
    /\ trace' = Append(trace, Event("shape", CurStem, TRUE))
    /\ out' = VerbosePrint(out, verbosity, INFO, <<"INFO: wrote ">> \o ShapeFile(name, CurStem))
    /\ pc' = "object"
    /\ UNCHANGED << args, name, verbosity, initDisk, i, seen, processed, sheet,
                    width, height, dirs, cmdStatus, exitCode, bsVars >>

\* sheet.objects[stem] = "description <stem>", then the next svg_file
AddObject ==
    /\ pc = "object"
    /\ sheet' = [ sheet EXCEPT !.objects = DictSet(@, CurStem, ObjectDescription(CurStem)) ]
    /\ trace' = Append(trace, Event("append", CurStem, TRUE))
    /\ i' = i + 1
    /\ pc' = "loop"
    /\ UNCHANGED << args, name, verbosity, initDisk, seen, processed, width, height,
                    disk, dirs, out, cmdStatus, exitCode, bsVars >>

LoopFinishedAnytime == TRUE

LoopFinished == i > Len(args)

\* after the loop: the sheet is built and written, main returns
WriteSheet ==
    /\ pc = "loop"
    /\ LoopFinished
    /\ disk' = WriteFile(disk, SheetFile(name), XmlText(build_sheet(sheet)))
    /\ trace' = Append(trace, Event("sheet", name, TRUE))
    /\ out' = VerbosePrint(out, verbosity, INFO, <<"INFO: wrote ">> \o SheetFile(name))
    /\ pc' = "done"
    /\ exitCode' = << ExitSuccess >>
    /\ UNCHANGED << args, name, verbosity, initDisk, i, seen, processed, sheet,
                    width, height, dirs, cmdStatus, bsVars >>

Next ==
    \/ Setup
    \/ LoopDup
    \/ ConvertOk
    \/ ConvertFail
    \/ IdentifyOk
    \/ IdentifyFail
    \/ CopySvg
    \/ WriteShape
    \/ AddObject
    \/ WriteSheet

Spec == Init /\ [][Next]_vars

\* ---------------------------------------------------- build_shape harness
RunIdle ==
    /\ args = <<>>
    /\ name = <<>>
    /\ verbosity = 0
    /\ initDisk = EmptyDisk
    /\ disk = EmptyDisk
    /\ dirs = {}
    /\ pc = "idle"
    /\ i = 0
    /\ seen = {}
    /\ processed = <<>>
    /\ sheet = NoSheet
    /\ width = 0
    /\ height = 0
    /\ out = <<>>
    /\ trace = <<>>
    /\ cmdStatus = <<>>
    /\ exitCode = <<>>

InitShape ==
    /\ RunIdle
    /\ bsPc = "in"
    /\ bsPath \in Paths
    /\ bsWidth \in 1..MaxDim
    /\ bsHeight \in 1..MaxDim
    /\ bsDoc = NoDoc

BuildShape ==
    /\ bsPc = "in"
    /\ bsDoc' = build_shape(bsPath, bsWidth, bsHeight)
    /\ bsPc' = "built"
    /\ UNCHANGED << runVars, bsPath, bsWidth, bsHeight >>

NextShape == BuildShape

SpecShape == InitShape /\ [][NextShape]_vars

\* ======================================================================
\* Properties
\* ======================================================================

\* the stem a path of Paths was assembled from
TrueStem(p) == CHOOSE n \in Names : \E d \in Dirs, e \in Exts : p = d \o n \o e

\* the distinct elements of s, in order of first occurrence
RECURSIVE FirstOcc(_)
FirstOcc(s) ==
    IF s = <<>> THEN <<>>
    ELSE LET r == FirstOcc(SubSeq(s, 1, Len(s) - 1))
             x == s[Len(s)]
         IN  IF \E j \in 1..Len(r) : r[j] = x THEN r ELSE Append(r, x)

\* how many inputs the loop has taken up so far
Entered ==
    IF pc \in { "start", "idle" } THEN 0
    ELSE IF pc \in { "loop", "done" } THEN i - 1
    ELSE i

InputStems(n) == [ k \in 1..n |-> TrueStem(args[k]) ]

OutputsOf(runName, stem) ==
    { <<"shapes", "/">> \o runName \o <<"/">> \o stem \o <<".", x>> :
        x \in { "png", "svg", "shape" } }

SheetOutput(runName) == <<"sheets", "/">> \o runName \o <<".", "sheet">>

\* files this run created
Written == (DOMAIN disk) \ (DOMAIN initDisk)

OpsOf(stem) ==
    LET evs == SelectSeq(trace, LAMBDA e : e.op # "sheet" /\ e.stem = stem)
    IN  [ k \in 1..Len(evs) |-> << evs[k].op, evs[k].ok >> ]

SheetWrites == { k \in 1..Len(trace) : trace[k].op = "sheet" }

\* C1: the stems the loop processes are the distinct stems of the inputs
\* taken up so far, each once, in first-occurrence order, where paths that
\* differ only in directory or extension have the same stem; on a fully
\* successful run these are the keys of sheet.objects.
C1_Thm ==
    /\ processed = FirstOcc(InputStems(Entered))
    /\ pc = "done" =>
          /\ Entered = Len(args)
          /\ DictKeys(sheet.objects) = FirstOcc(InputStems(Len(args)))

C1_Witness ==
    /\ pc = "done"
    /\ Len(args) = 3
    /\ Len(processed) = 2
    /\ args[1] # args[3]
    /\ TrueStem(args[1]) = TrueStem(args[3])

P(xs, ys) == [ x |-> xs, y |-> ys ]

\* C2: build_shape emits exactly the 9 points (0,0), (0,w/2), (0,w),
\* (h/2,0), (h,0), (w/2,h), (w/2,h/2), (w,h/2), (w,h) in this order with
\* floor division; 22x22 and 10x7 give the two listed sequences.
C2_Thm ==
    bsPc = "built" =>
       LET w == bsWidth
           h == bsHeight
           expected == << <<0, 0>>, <<0, w \div 2>>, <<0, w>>,
                          <<h \div 2, 0>>, <<h, 0>>, <<w \div 2, h>>,
                          <<w \div 2, h \div 2>>, <<w, h \div 2>>, <<w, h>> >>
       IN  /\ Len(bsDoc.connections) = 9
           /\ \A k \in 1..9 :
                 bsDoc.connections[k] = P(Str(expected[k][1]), Str(expected[k][2]))
           /\ (w = 22 /\ h = 22) =>
                 bsDoc.connections =
                    << P(<<"0">>, <<"0">>), P(<<"0">>, <<"1", "1">>),
                       P(<<"0">>, <<"2", "2">>), P(<<"1", "1">>, <<"0">>),
                       P(<<"2", "2">>, <<"0">>), P(<<"1", "1">>, <<"2", "2">>),
                       P(<<"1", "1">>, <<"1", "1">>), P(<<"2", "2">>, <<"1", "1">>),
                       P(<<"2", "2">>, <<"2", "2">>) >>
           /\ (w = 10 /\ h = 7) =>
                 bsDoc.connections =
                    << P(<<"0">>, <<"0">>), P(<<"0">>, <<"5">>),
                       P(<<"0">>, <<"1", "0">>), P(<<"3">>, <<"0">>),
                       P(<<"7">>, <<"0">>), P(<<"5">>, <<"7">>),
                       P(<<"5">>, <<"3">>), P(<<"1", "0">>, <<"3">>),
                       P(<<"1", "0">>, <<"7">>) >>

C2_Witness == bsPc = "built" /\ bsWidth = 10 /\ bsHeight = 7

\* C3: on a fully successful run the object entries of the written sheet
\* document are, in order, one per processed stem, with name the stem and
\* description "description <stem>".
C3_Thm ==
    pc = "done" =>
       disk[SheetOutput(name)].doc.contents =
          [ k \in 1..Len(processed) |->
              [ name |-> processed[k],
                description |-> <<"description ">> \o processed[k] ] ]

C3_Witness ==
    /\ pc = "done"
    /\ Len(processed) = 2
    /\ Len(disk[SheetOutput(name)].doc.contents) = 2

EarlierOutputs == UNION { OutputsOf(name, processed[k]) : k \in 1..(Len(processed) - 1) }

FailedCall == trace[Len(trace)]

AbortShape ==
    /\ processed # <<>>
    /\ trace # <<>>
    /\ Entered <= Len(args)
    /\ processed[Len(processed)] = TrueStem(args[Entered])
    /\ FailedCall.ok = FALSE
    /\ FailedCall.op \in { "convert", "identify" }
    /\ FailedCall.stem = processed[Len(processed)]
    /\ Cardinality({ k \in 1..Len(trace) :
                       trace[k].op = FailedCall.op /\ trace[k].stem = FailedCall.stem }) = 1
    /\ \A k \in 1..Len(trace) : \E j \in 1..Len(processed) : trace[k].stem = processed[j]
    /\ SheetOutput(name) \notin DOMAIN disk

\* C4 as stated: after a failed external call the files the run created are
\* those of the earlier unique inputs only, whichever tool failed.
C4_Orig ==
    pc = "aborted" => AbortShape /\ Written = EarlierOutputs

C4_Aborted ==
    pc = "aborted" =>
       /\ AbortShape
       /\ Written = EarlierOutputs \cup
             ( IF FailedCall.op = "identify"
               THEN { <<"shapes", "/">> \o name \o <<"/">> \o FailedCall.stem \o <<".", "png">> }
               ELSE {} )

\* C4 (amended): a failed external call on the N-th unique input ends the
\* run at once, without retry: no step follows it, no later input is taken
\* up, the sheet is not written, and the files created are those of unique
\* inputs 1..N-1, plus the N-th thumbnail when the failing tool is the
\* introspection tool.
C4_Thm == [][ (pc = "aborted" => UNCHANGED vars) /\ C4_Aborted' ]_vars

C4_Witness ==
    /\ pc = "aborted"
    /\ Len(processed) = 2
    /\ Entered < Len(args)
    /\ FailedCall.op = "identify"
    /\ initDisk = EmptyDisk

\* C5: a fully successful run started in an empty output area leaves exactly
\* sheets/<name>.sheet and, per distinct stem, <stem>.png, <stem>.svg and
\* <stem>.shape under shapes/<name>/; [a.svg, b.svg, a.svg] with name demo
\* gives a sheet listing a, b and the six files of a and b.
C5_Thm ==
    (pc = "done" /\ initDisk = EmptyDisk) =>
       /\ DOMAIN disk = { SheetOutput(name) } \cup
             UNION { OutputsOf(name, TrueStem(args[k])) : k \in 1..Len(args) }
       /\ ( /\ args = << <<"a", ".", "svg">>, <<"b", ".", "svg">>, <<"a", ".", "svg">> >>
            /\ name = <<"demo">> ) =>
             /\ Cardinality(DOMAIN disk) = 7
             /\ <<"sheets", "/", "demo", ".", "sheet">> \in DOMAIN disk
             /\ \A s \in { "a", "b" }, x \in { "png", "svg", "shape" } :
                   <<"shapes", "/", "demo", "/", s, ".", x>> \in DOMAIN disk
             /\ [ k \in 1..2 |-> disk[<<"sheets", "/", "demo", ".", "sheet">>].doc.contents[k].name ]
                   = << <<"a">>, <<"b">> >>

C5_Witness ==
    /\ pc = "done"
    /\ initDisk = EmptyDisk
    /\ args = << <<"a", ".", "svg">>, <<"b", ".", "svg">>, <<"a", ".", "svg">> >>
    /\ name = <<"demo">>

\* C6 as stated: no flag prints nothing; one occurrence prints only the
\* level-1 (INFO) diagnostics; the level-2 (WARN) duplicate diagnostic is
\* printed only with two or more occurrences.
C6_Orig ==
    /\ verbosity = 0 => out = <<>>
    /\ verbosity = 1 => \A k \in 1..Len(out) : out[k].level = INFO
    /\ (\E k \in 1..Len(out) : out[k].level = WARN) => verbosity >= 2

BoxPoints(w, h) ==
    { <<0, 0>>, <<w, 0>>, <<0, h>>, <<w, h>>,
      <<w \div 2, 0>>, <<w \div 2, h>>, <<0, h \div 2>>, <<w, h \div 2>>,
      <<w \div 2, h \div 2>> }

\* C7 as stated: the emitted points are the corners, the edge midpoints and
\* the centre of the rectangle [0,width] x [0,height] of the image reference.
C7_Orig ==
    bsPc = "built" =>
       /\ bsDoc.image.width = Str(bsWidth)
       /\ bsDoc.image.height = Str(bsHeight)
       /\ { bsDoc.connections[k] : k \in 1..Len(bsDoc.connections) }
             = { P(Str(xy[1]), Str(xy[2])) : xy \in BoxPoints(bsWidth, bsHeight) }

\* C8 as stated: exit code 0 on full success; after a failed external
\* command the exit code is that command's non-zero exit status.
C8_Orig ==
    /\ pc = "done" => exitCode = << 0 >>
    /\ pc = "aborted" => exitCode # << 0 >> /\ exitCode = cmdStatus

\* C8 (amended): the exit code is 0 when every input is processed and the
\* sheet is written; after a failed external command it is non-zero, and it
\* is 1 whatever the non-zero exit status of the failing command.
C8_Thm ==
    /\ (exitCode # <<>>) <=> (pc \in { "done", "aborted" })
    /\ pc = "done" =>
          /\ exitCode = << 0 >>
          /\ Entered = Len(args)
          /\ SheetOutput(name) \in DOMAIN disk
    /\ pc = "aborted" =>
          /\ cmdStatus # <<>>
          /\ cmdStatus[1] # 0
          /\ exitCode = << 1 >>

C8_Witness == pc = "aborted" /\ cmdStatus = << 2 >> /\ exitCode = << 1 >>

RepeatsEarlierStem ==
    /\ pc = "loop"
    /\ i <= Len(args)
    /\ \E k \in 1..(i - 1) : TrueStem(args[k]) = TrueStem(args[i])

\* C9: taking up an input whose stem was seen before only prints at most the
\* one warning: no tool call, no file, no directory, no change to
\* sheet.objects or seen, and the loop goes on with the next input.
C9_Thm ==
    [][ RepeatsEarlierStem =>
          /\ UNCHANGED << args, name, verbosity, initDisk, seen, processed, sheet,
                          width, height, disk, dirs, trace, cmdStatus, exitCode >>
          /\ pc' = "loop"
          /\ i' = i + 1
          /\ \/ out' = out
             \/ /\ Len(out') = Len(out) + 1
                /\ SubSeq(out', 1, Len(out)) = out
                /\ out'[Len(out')].level = WARN ]_vars

C9_Witness ==
    /\ pc = "loop"
    /\ i <= Len(args)
    /\ Len(processed) < i - 1
    /\ sheet.objects # <<>>

FullPipeline ==
    << <<"convert", TRUE>>, <<"identify", TRUE>>, <<"copy", TRUE>>,
       <<"shape", TRUE>>, <<"append", TRUE>> >>

\* C10: the sheet is written at most once and last; when it is written every
\* distinct input stem has been rasterized, probed, copied, described and
\* added to sheet.objects, in this order; at all times a stem in
\* sheet.objects has its .png, .svg and .shape on disk.
C10_Thm ==
    /\ Cardinality(SheetWrites) <= 1
    /\ (SheetOutput(name) \in DOMAIN disk) <=> (SheetWrites # {})
    /\ SheetWrites # {} =>
          /\ pc = "done"
          /\ trace[Len(trace)].op = "sheet"
          /\ \A k \in 1..Len(args) : OpsOf(TrueStem(args[k])) = FullPipeline
    /\ \A k \in 1..Len(sheet.objects) :
          OutputsOf(name, sheet.objects[k][1]) \subseteq DOMAIN disk

C10_Witness ==
    /\ pc = "done"
    /\ SheetWrites # {}
    /\ Len(sheet.objects) = 2
    /\ Len(args) = 3

====
